---- MODULE Spec2Model ----
(***************************************************************************)
(* Model of static/app.js: the debounced, cancelable recommendation widget *)
(* (initHeroRecommendations), its card template (renderToolCard) and the   *)
(* HTML escaping it relies on (escapeHTML).                                *)
(*                                                                         *)
(* A JavaScript string is a sequence of one-character strings.  A          *)
(* JavaScript value is a record tagged by its type: [t |-> "string", s],   *)
(* [t |-> "undefined"], [t |-> "null"] or [t |-> "array", a].              *)
(***************************************************************************)
EXTENDS Integers, Sequences, FiniteSets, TLC

VARIABLES
    hosts,          \* the host elements getElementById finds in the page
    value,          \* input.value, the text of the search field
    debounce,       \* the timer handle `debounce` (0 = null)
    timers,         \* host timers armed by setTimeout: handle -> ms left
    lastController, \* `lastController`: index of its request (0 = null)
    requests,       \* every fetch issued so far, in order of issue
    jobs,           \* settled promises whose continuation in run() is queued
    hidden,         \* recs.classList contains "hidden"
    grid,           \* grid.innerHTML, as the sequence of cards it holds
    quiet,          \* ms since the last input event (saturates at Delay)
    burst,          \* observer: the current burst of input events (as the
                    \*   listener sees them)
    lastFire,       \* observer: what the latest debounce firing did: "short",
                    \*   "issued", or "superseded" (issued over one in flight)
    lastHandler,    \* observer: the latest code path of run() that finished
    nInputs,        \* observer: input events so far
    nFires,         \* observer: debounce firings so far
    str,            \* argument handed to escapeHTML
    escaped,        \* result of escapeHTML(str)
    tool,           \* argument handed to renderToolCard
    card            \* result of renderToolCard(tool)

appVars  == <<hosts, value, debounce, timers, lastController, requests, jobs, hidden,
              grid, quiet, burst, lastFire, lastHandler, nInputs, nFires>>
pureVars == <<str, escaped, tool, card>>
vars     == <<appVars, pureVars>>

----------------------------------------------------------------------------
(* Bounds of the model *)

MaxInputs == 3      \* input events in one behaviour
MaxTools  == 6      \* longest `tools` list a response carries
MaxStrLen == 3      \* longest string handed to escapeHTML

(* Program constants *)

Delay     == 450    \* setTimeout(run, 450)
MinTask   == 3      \* if (task.length < 3)
MaxCards  == 5      \* tools.slice(0, 5)
MaxPills  == 3      \* use_cases.slice(0, 3)

----------------------------------------------------------------------------
(* JavaScript values and strings *)

Min(a, b) == IF a <= b THEN a ELSE b
Max(a, b) == IF a >= b THEN a ELSE b

JsStr(s)    == [t |-> "string", s |-> s]
JsUndefined == [t |-> "undefined"]
JsNull      == [t |-> "null"]
JsArray(a)  == [t |-> "array", a |-> a]

\* String(v): JsString of a string, undefined or null
JsString(v) ==
    IF v.t = "string" THEN v.s
    ELSE IF v.t = "undefined" THEN <<"u","n","d","e","f","i","n","e","d">>
    ELSE <<"n","u","l","l">>

\* v || d : d replaces a falsy v (undefined, null, the empty string)
OrElse(v, d) ==
    IF v.t \in {"undefined", "null"} THEN d
    ELSE IF v.t = "string" /\ v.s = <<>> THEN d
    ELSE v

RECURSIVE Concat(_)
Concat(ss) == IF ss = <<>> THEN <<>> ELSE Head(ss) \o Concat(Tail(ss))

\* s.replaceAll(c, rep) for a one-character pattern c
RECURSIVE replaceAll(_, _, _)
replaceAll(s, c, rep) ==
    IF s = <<>> THEN <<>>
    ELSE (IF Head(s) = c THEN rep ELSE <<Head(s)>>) \o replaceAll(Tail(s), c, rep)

AmpEntity  == <<"&","a","m","p",";">>
LtEntity   == <<"&","l","t",";">>
GtEntity   == <<"&","g","t",";">>
QuotEntity == <<"&","q","u","o","t",";">>
AposEntity == <<"&","#","3","9",";">>

\* escapeHTML with the ampersand replaced last instead of first
escapeHTMLAmpLast(v) ==
    replaceAll(
      replaceAll(
        replaceAll(
          replaceAll(
            replaceAll(JsString(v), "<", LtEntity),
            ">", GtEntity),
          "\"", QuotEntity),
        "'", AposEntity),
      "&", AmpEntity)

escapeHTML(v) ==
    replaceAll(
      replaceAll(
        replaceAll(
          replaceAll(
            replaceAll(JsString(v), "&", AmpEntity),
            "<", LtEntity),
          ">", GtEntity),
        "\"", QuotEntity),
      "'", AposEntity)

\* Characters.  A printable ASCII character is the string of itself; tab,
\* line feed, form feed and carriage return are "\t", "\n", "\f", "\r"; any
\* other character is written by its code point, as "U+00A0".

\* The characters U+0020..U+007E, in code order (the grave accent, which a
\* string of this language cannot hold, by its code point)
Printable ==
    << " ", "!", "\"", "#", "$", "%", "&", "'", "(", ")", "*", "+", ",", "-", ".", "/",
       "0", "1", "2", "3", "4", "5", "6", "7", "8", "9", ":", ";", "<", "=", ">", "?",
       "@", "A", "B", "C", "D", "E", "F", "G", "H", "I", "J", "K", "L", "M", "N", "O",
       "P", "Q", "R", "S", "T", "U", "V", "W", "X", "Y", "Z", "[", "\\", "]", "^", "_",
       "U+0060", "a", "b", "c", "d", "e", "f", "g", "h", "i", "j", "k", "l", "m", "n", "o",
       "p", "q", "r", "s", "t", "u", "v", "w", "x", "y", "z", "{", "|", "}", "~" >>

\* The other characters the model writes, each with its code point
Named ==
    << <<"\t", 9>>, <<"\n", 10>>, <<"U+000B", 11>>, <<"\f", 12>>,
       <<"\r", 13>>, <<"U+00A0", 160>>, <<"U+00E9", 233>>, <<"U+1680", 5760>>,
       <<"U+2000", 8192>>, <<"U+2001", 8193>>, <<"U+2002", 8194>>, <<"U+2003", 8195>>,
       <<"U+2004", 8196>>, <<"U+2005", 8197>>, <<"U+2006", 8198>>, <<"U+2007", 8199>>,
       <<"U+2008", 8200>>, <<"U+2009", 8201>>, <<"U+200A", 8202>>, <<"U+2028", 8232>>,
       <<"U+2029", 8233>>, <<"U+202F", 8239>>, <<"U+205F", 8287>>, <<"U+3000", 12288>>,
       <<"U+FEFF", 65279>> >>

\* The code point of a character
CodePoint(c) ==
    IF \E i \in 1..Len(Printable) : Printable[i] = c
    THEN 31 + (CHOOSE i \in 1..Len(Printable) : Printable[i] = c)
    ELSE Named[CHOOSE i \in 1..Len(Named) : Named[i][1] = c][2]

\* What String.prototype.trim strips: WhiteSpace (tab, VT, FF, space,
\* no-break space, U+FEFF and the Unicode space separators) and
\* LineTerminator (LF, CR, U+2028, U+2029)
WhiteSpace ==
    {9, 10, 11, 12, 13, 32, 160, 5760, 8232, 8233, 8239, 8287, 12288, 65279}
    \cup (8192..8202)

IsSpace(c) == CodePoint(c) \in WhiteSpace

RECURSIVE TrimStart(_)
TrimStart(s) ==
    IF s # <<>> /\ IsSpace(Head(s)) THEN TrimStart(Tail(s)) ELSE s

RECURSIVE TrimEnd(_)
TrimEnd(s) ==
    IF s # <<>> /\ IsSpace(s[Len(s)]) THEN TrimEnd(SubSeq(s, 1, Len(s) - 1)) ELSE s

Trim(s) == TrimEnd(TrimStart(s))

\* The characters encodeURIComponent leaves alone: A-Z a-z 0-9 - _ . ! ~ * ' ( )
Unreserved ==
    (48..57) \cup (65..90) \cup (97..122)
    \cup {CodePoint(x) : x \in {"-", "_", ".", "!", "~", "*", "'", "(", ")"}}

\* The UTF-8 bytes of a code point of the Basic Multilingual Plane
Utf8(cp) ==
    IF cp < 128 THEN <<cp>>
    ELSE IF cp < 2048 THEN <<192 + (cp \div 64), 128 + (cp % 64)>>
    ELSE <<224 + (cp \div 4096), 128 + ((cp \div 64) % 64), 128 + (cp % 64)>>

HexDigits == <<"0","1","2","3","4","5","6","7","8","9","A","B","C","D","E","F">>

\* %XX for one byte
PercentByte(b) == <<"%", HexDigits[(b \div 16) + 1], HexDigits[(b % 16) + 1]>>

\* encodeURIComponent of one character: unreserved characters pass, every
\* other one becomes the percent-encoded bytes of its UTF-8 form
EncodeChar(c) ==
    IF CodePoint(c) \in Unreserved THEN <<c>>
    ELSE LET bytes == Utf8(CodePoint(c))
         IN  Concat([i \in 1..Len(bytes) |-> PercentByte(bytes[i])])

encodeURIComponent(v) ==
    LET s == JsString(v) IN Concat([i \in 1..Len(s) |-> EncodeChar(s[i])])

----------------------------------------------------------------------------
(* renderToolCard: the card is the record of the texts the template        *)
(* inserts between its fixed markup, in template order                     *)

Take(s, n) == SubSeq(s, 1, Min(n, Len(s)))

\* (tool.use_cases || []).slice(0, 3).map(t => ...escapeHTML(t)...)
Pills(use_cases) ==
    LET list  == IF use_cases.t = "array" THEN use_cases.a ELSE <<>>
        shown == Take(list, MaxPills)
    IN  [i \in 1..Len(shown) |-> escapeHTML(shown[i])]

renderToolCard(t) ==
    [ href         |-> <<"/","t","o","o","l","s","/">> \o encodeURIComponent(t.slug),
      visit        |-> JsString(t.url),
      icon         |-> escapeHTML(OrElse(t.icon, JsStr(<<"A","I">>))),
      name         |-> escapeHTML(t.name),
      pricing_type |-> escapeHTML(OrElse(t.pricing_type, JsStr(<<>>))),
      description  |-> escapeHTML(OrElse(t.description, JsStr(<<>>))),
      category     |-> escapeHTML(OrElse(t.category, JsStr(<<>>))),
      pills        |-> Pills(t.use_cases) ]

----------------------------------------------------------------------------
(* The recommendation service's data: tools and response bodies *)

Digits == <<"0","1","2","3","4","5","6","7","8","9">>
DigitChar(i) == Digits[(i % 10) + 1]

\* The i-th tool of the service's catalogue.  Tools differ in their slug
\* (every other slug needs URL encoding);
\* the texts carry markup characters, and optional fields come and go.
ToolAt(i) ==
    [ slug         |-> JsStr(IF i % 2 = 1 THEN <<"t", DigitChar(i)>>
                                          ELSE <<"t", ":", "%", "U+00E9", DigitChar(i)>>),
      name         |-> JsStr(IF i % 2 = 1 THEN <<"<","b",">","&", DigitChar(i)>>
                                          ELSE <<"T", DigitChar(i)>>),
      url          |-> JsStr(<<"h",":","/","/","t", DigitChar(i)>>),
      icon         |-> IF i % 3 = 0 THEN JsUndefined ELSE JsStr(<<"'","i","'">>),
      pricing_type |-> IF i % 3 = 1 THEN JsNull ELSE JsStr(<<"f","r","e","e">>),
      description  |-> IF i % 2 = 0 THEN JsUndefined ELSE JsStr(<<"a","\"","b">>),
      category     |-> IF i % 3 = 2 THEN JsStr(<<>>) ELSE JsStr(<<"c","&","d">>),
      use_cases    |-> IF i % 4 = 0 THEN JsUndefined
                       ELSE JsArray([k \in 1..(i % 4) + 1 |-> JsStr(<<"<", DigitChar(k)>>)]) ]

\* The list of n tools a response carries, starting at catalogue entry k + 1
ToolList(n, k) == [i \in 1..n |-> ToolAt(((i + k - 1) % MaxTools) + 1)]

\* Lengths of the `tools` lists the service answers with: none, one, as
\* many as the grid shows, and more than it shows
ToolCounts == {0, 1, MaxCards, MaxTools}

\* Response bodies: text that is no JSON, the JSON value null, an object
\* without `tools`, and objects whose `tools` is a list of tools
Bodies ==
    {[kind |-> "malformed"], [kind |-> "null"], [kind |-> "object", tools |-> JsUndefined]}
    \cup {[kind |-> "object", tools |-> JsArray(ToolList(n, k))] :
              n \in ToolCounts, k \in {0, 1}}

\* Texts the user can leave in the search field
InputValues ==
    { <<>>,
      <<"\t","a","b","U+00A0">>,
      <<"a","b","c">>,
      <<"\n","a"," ","b","c","\r","U+3000">> }

----------------------------------------------------------------------------
(* initHeroRecommendations: state after construction *)

\* Observer record of a finished code path of run(): what it handled
\* (`got`), for which request, and what the panel showed before it ran
NoHandler == [got |-> "none", req |-> 0, status |-> 0, tools |-> <<>>,
              wasShown |-> FALSE, issued |-> 0]
NoBody    == [kind |-> "none"]

\* hero-search, hero-q, hero-recs, hero-recs-grid
AllHosts == {"form", "input", "recs", "grid"}

\* A guard that forgets the grid
RegisteredWithoutGrid == {"form", "input", "recs"} \subseteq hosts

\* if (!form || !input || !recs || !grid) return; else the listener is
\* registered on the input
Registered == hosts = AllHosts

PureIdle ==
    /\ str = JsStr(<<>>)
    /\ escaped = <<>>
    /\ tool = ToolAt(1)
    /\ card = <<>>

\* The page holds any of the four host elements; the panel's initial class
\* comes from the page's markup, the grid starts empty.
Init ==
    /\ hosts \in SUBSET AllHosts
    /\ value = <<>>
    /\ debounce = 0
    /\ timers = <<>>
    /\ lastController = 0
    /\ requests = <<>>
    /\ jobs = <<>>
    /\ hidden \in BOOLEAN
    /\ grid = <<>>
    /\ quiet = Delay
    /\ burst = [len |-> 0, fires |-> 0, reqs |-> 0]
    /\ lastFire = "none"
    /\ lastHandler = NoHandler
    /\ nInputs = 0
    /\ nFires = 0
    /\ PureIdle

----------------------------------------------------------------------------
(* The host's event loop.  A task (input event, timer callback, network    *)
(* event) starts only when no promise continuation is queued: the          *)
(* microtask queue `jobs` is drained between tasks.                        *)

Idle == jobs = <<>>

Armed == DOMAIN timers

\* A listener that never cancels the pending timer
clearTimeoutNoop(ts, h) == ts

\* clearTimeout(h): disarms h; a null or stale handle is ignored
clearTimeout(ts, h) == [x \in (DOMAIN ts) \ {h} |-> ts[x]]

\* setTimeout(run, 450) returning handle h
setTimeout(ts, h) == [x \in (DOMAIN ts) \cup {h} |-> IF x = h THEN Delay ELSE ts[x]]

\* A listener that also aborts the request in flight on every edit
InputEventAborting(v) ==
    /\ Idle
    /\ "input" \in hosts
    /\ nInputs < MaxInputs
    /\ value' = v
    /\ nInputs' = nInputs + 1
    /\ quiet' = 0
    /\ timers' = [x \in ((DOMAIN timers) \ {debounce}) \cup {nInputs + 1} |->
                     IF x = nInputs + 1 THEN Delay ELSE timers[x]]
    /\ debounce' = nInputs + 1
    /\ burst' = IF quiet < Delay
                THEN [burst EXCEPT !.len = @ + 1]
                ELSE [len |-> 1, fires |-> 0, reqs |-> 0]
    /\ requests' = [r \in 1..Len(requests) |->
                       IF requests[r].phase # "settled"
                       THEN [requests[r] EXCEPT !.phase = "settled", !.outcome = "aborted"]
                       ELSE requests[r]]
    /\ jobs' = IF lastController # 0 /\ requests[lastController].phase # "settled"
               THEN <<[req |-> lastController, kind |-> "reject"]>>
               ELSE <<>>
    /\ UNCHANGED <<lastController, hidden, grid, lastFire, lastHandler, nFires,
                   hosts, pureVars>>

\* input.addEventListener("input", ...): the field now holds v (an edit
\* may leave the text it found, as when a selection is replaced by itself)
InputEvent(v) ==
    /\ Idle
    /\ "input" \in hosts
    /\ nInputs < MaxInputs
    /\ value' = v
    /\ nInputs' = nInputs + 1
    /\ quiet' = 0
    /\ IF Registered
       THEN /\ timers' = setTimeout(clearTimeout(timers, debounce), nInputs + 1)
            /\ debounce' = nInputs + 1
            /\ burst' = IF quiet < Delay
                        THEN [burst EXCEPT !.len = @ + 1]
                        ELSE [len |-> 1, fires |-> 0, reqs |-> 0]
       ELSE UNCHANGED <<timers, debounce, burst>>
    /\ UNCHANGED <<lastController, requests, jobs, hidden, grid, lastFire,
                   lastHandler, nFires, hosts, pureVars>>

\* d ms pass: armed timers run down (a due timer may still wait its turn)
Advance(d) ==
    /\ Idle
    /\ quiet < Delay \/ \E h \in Armed : timers[h] > 0
    /\ timers' = [h \in Armed |-> Max(0, timers[h] - d)]
    /\ quiet' = Min(Delay, quiet + d)
    /\ UNCHANGED <<value, debounce, lastController, requests, jobs, hidden, grid,
                   burst, lastFire, lastHandler, nInputs, nFires, hosts, pureVars>>

\* A threshold of two characters
TooShortBelowTwo(task) == Len(task) < 2

\* task.length < 3
TooShort(task) == Len(task) < MinTask

InFlight(r) == requests[r].phase # "settled"

\* if (lastController) lastController.abort(): the fetch of a request that
\* has not settled rejects with AbortError; a settled one is left alone
\* A firing that never aborts
AbortNothing == {}

AbortTargets ==
    IF lastController # 0 /\ InFlight(lastController) THEN {lastController} ELSE {}

Abort(reqs) ==
    [r \in 1..Len(reqs) |->
        IF r \in AbortTargets
        THEN [reqs[r] EXCEPT !.phase = "settled", !.outcome = "aborted", !.body = NoBody]
        ELSE reqs[r]]

NewRequest(task) ==
    [task |-> task, phase |-> "fetching", status |-> 0, outcome |-> "pending",
     body |-> NoBody]

\* Observer: some request is still in flight
Overlaps == \E r \in 1..Len(requests) : InFlight(r)

\* The timer callback run(), up to its first await (or its early return)
Fire(h) ==
    /\ Idle
    /\ h \in Armed
    /\ timers[h] = 0
    /\ timers' = [x \in Armed \ {h} |-> timers[x]]
    /\ nFires' = nFires + 1
    /\ LET task == Trim(value) IN
       IF TooShort(task)
       THEN /\ hidden' = TRUE
            /\ grid' = <<>>
            /\ lastFire' = "short"
            /\ lastHandler' = [NoHandler EXCEPT !.got = "short",
                                                !.wasShown = ~hidden /\ grid # <<>>,
                                                !.issued = Len(requests)]
            /\ burst' = [burst EXCEPT !.fires = @ + 1]
            /\ UNCHANGED <<lastController, requests, jobs>>
       ELSE /\ requests' = Append(Abort(requests), NewRequest(task))
            /\ jobs' = jobs \o [i \in 1..Cardinality(AbortTargets) |->
                                   [req |-> lastController, kind |-> "reject"]]
            /\ lastController' = Len(requests) + 1
            /\ lastFire' = IF Overlaps THEN "superseded" ELSE "issued"
            /\ burst' = [burst EXCEPT !.fires = @ + 1, !.reqs = @ + 1]
            /\ UNCHANGED <<hidden, grid, lastHandler>>
    /\ UNCHANGED <<value, debounce, quiet, nInputs, hosts, pureVars>>

----------------------------------------------------------------------------
(* postJSON and the network *)

Statuses == {200, 500}

\* fetch resolves with the response's status line and headers; postJSON
\* goes on to res.json() whatever the status is
Headers(r, st) ==
    /\ Idle
    /\ r \in 1..Len(requests)
    /\ requests[r].phase = "fetching"
    /\ requests' = [requests EXCEPT ![r].phase = "reading", ![r].status = st]
    /\ UNCHANGED <<value, debounce, timers, lastController, jobs, hidden, grid,
                   quiet, burst, lastFire, lastHandler, nInputs, nFires, hosts, pureVars>>

\* res.json(): rejects on a body that is no JSON, else resolves with its value
JsonOutcome(b) == IF b.kind = "malformed" THEN "parseerror" ELSE "json"

\* The body has arrived in full: the promise postJSON returned settles
BodyArrives(r, b) ==
    /\ Idle
    /\ r \in 1..Len(requests)
    /\ requests[r].phase = "reading"
    /\ requests' = [requests EXCEPT ![r].phase = "settled",
                                    ![r].outcome = JsonOutcome(b),
                                    ![r].body = b]
    /\ jobs' = Append(jobs, [req |-> r,
                             kind |-> IF JsonOutcome(b) = "json" THEN "resolve"
                                                                 ELSE "reject"])
    /\ UNCHANGED <<value, debounce, timers, lastController, hidden, grid, quiet,
                   burst, lastFire, lastHandler, nInputs, nFires, hosts, pureVars>>

\* The transport fails before the response is complete: fetch (or the read
\* of the body) rejects
NetworkError(r) ==
    /\ Idle
    /\ r \in 1..Len(requests)
    /\ InFlight(r)
    /\ requests' = [requests EXCEPT ![r].phase = "settled", ![r].outcome = "neterror"]
    /\ jobs' = Append(jobs, [req |-> r, kind |-> "reject"])
    /\ UNCHANGED <<value, debounce, timers, lastController, hidden, grid, quiet,
                   burst, lastFire, lastHandler, nInputs, nFires, hosts, pureVars>>

----------------------------------------------------------------------------
(* run() after its await *)

\* const tools = data.tools || []
ToolsOf(data) == OrElse(data.tools, JsArray(<<>>)).a

\* tools.map(renderToolCard), without the slice
CardsAll(tools) == [i \in 1..Len(tools) |-> renderToolCard(tools[i])]

\* tools.slice(0, 5).map(renderToolCard)
Cards(tools) ==
    LET shown == Take(tools, MaxCards)
    IN  [i \in 1..Len(shown) |-> renderToolCard(shown[i])]

\* run() without the `if (!tools.length)` block
PathOfNoEmptyCheck(j) ==
    LET rq == requests[j.req] IN
    IF j.kind = "reject" THEN "catch"
    ELSE IF rq.body.kind = "null" THEN "catch"
    ELSE "render"

\* The path run() takes once the promise of job j has settled: "render"
\* (lines 84-85), "empty" (lines 78-82) or "catch" (lines 86-89), entered
\* by a rejection or by data.tools throwing on the value null
PathOf(j) ==
    LET rq == requests[j.req] IN
    IF j.kind = "reject" THEN "catch"
    ELSE IF rq.body.kind = "null" THEN "catch"
    ELSE IF Len(ToolsOf(rq.body)) = 0 THEN "empty"
    ELSE "render"

\* A catch block that leaves the panel's class alone
HiddenAfterCatchKeeps(path) == IF path = "catch" THEN hidden ELSE path # "render"

\* recs.classList after the path
HiddenAfter(path) == path # "render"

\* An empty-list branch that hides the panel and forgets to clear the grid
GridAfterEmptyKeeps(path, data) ==
    IF path = "render" THEN Cards(ToolsOf(data))
    ELSE IF path = "empty" THEN grid
    ELSE <<>>

\* grid.innerHTML after the path
GridAfter(path, data) == IF path = "render" THEN Cards(ToolsOf(data)) ELSE <<>>

\* Observer: what settled the promise of job j: the rejection's cause, or
\* the shape of the JSON value it resolved with
Settlement(j) ==
    LET rq == requests[j.req] IN
    IF j.kind = "reject" THEN rq.outcome
    ELSE IF rq.body.kind = "null" THEN "null"
    ELSE IF rq.body.tools.t = "array" THEN "list"
    ELSE "notools"

\* Nothing of a request is left once its continuation has run
Handled(rq) == [rq EXCEPT !.phase = "settled", !.status = 0, !.outcome = "handled",
                          !.body = NoBody]

Continue ==
    /\ jobs # <<>>
    /\ LET j    == Head(jobs)
           rq   == requests[j.req]
           path == PathOf(j)
       IN  /\ hidden' = HiddenAfter(path)
           /\ grid' = GridAfter(path, rq.body)
           /\ lastHandler' = [got      |-> Settlement(j),
                              req      |-> j.req,
                              status   |-> rq.status,
                              tools    |-> IF Settlement(j) = "list"
                                           THEN rq.body.tools.a ELSE <<>>,
                              wasShown |-> ~hidden /\ grid # <<>>,
                              issued   |-> Len(requests)]
           /\ requests' = [requests EXCEPT ![j.req] = Handled(rq)]
    /\ jobs' = Tail(jobs)
    /\ UNCHANGED <<value, debounce, timers, lastController, quiet, burst, lastFire,
                   nInputs, nFires, hosts, pureVars>>

----------------------------------------------------------------------------
(* The widget *)

Next ==
    \/ \E v \in InputValues : InputEvent(v)
    \/ \E d \in {Delay - 1, Delay} : Advance(d)
    \/ \E h \in Armed : Fire(h)
    \/ \E r \in 1..Len(requests), st \in Statuses : Headers(r, st)
    \/ \E r \in 1..Len(requests), b \in Bodies : BodyArrives(r, b)
    \/ \E r \in 1..Len(requests) : NetworkError(r)
    \/ Continue

Spec == Init /\ [][Next]_vars

----------------------------------------------------------------------------
(* escapeHTML and renderToolCard on their own: the argument is drawn from  *)
(* every string of at most MaxStrLen characters over markup characters and *)
(* ordinary ones, and from the absent values                               *)

Alphabet == {"&", "<", ">", "\"", "'", "a", ";"}

Strings == UNION {[1..n -> Alphabet] : n \in 0..MaxStrLen}

TextValues == {JsStr(s) : s \in Strings} \cup {JsUndefined, JsNull}

TextFields == {"name", "description", "category", "pricing_type", "icon", "use_cases"}

\* A tool whose text field f carries v (as every entry of use_cases)
ToolWith(f, v) ==
    IF f = "use_cases"
    THEN [ToolAt(2) EXCEPT !.use_cases =
              IF v.t = "string" THEN JsArray(<<v, JsStr(<<"a">>), v, v>>) ELSE v]
    ELSE [ToolAt(2) EXCEPT ![f] = v]

InitPure ==
    /\ hosts = AllHosts
    /\ value = <<>>
    /\ debounce = 0
    /\ timers = <<>>
    /\ lastController = 0
    /\ requests = <<>>
    /\ jobs = <<>>
    /\ hidden = TRUE
    /\ grid = <<>>
    /\ quiet = Delay
    /\ burst = [len |-> 0, fires |-> 0, reqs |-> 0]
    /\ lastFire = "none"
    /\ lastHandler = NoHandler
    /\ nInputs = 0
    /\ nFires = 0
    /\ str \in TextValues
    /\ escaped = <<>>
    /\ \E f \in TextFields : tool = ToolWith(f, str)
    /\ card = <<>>

Escape ==
    /\ escaped = <<>>
    /\ escaped' = <<escapeHTML(str)>>
    /\ UNCHANGED <<appVars, str, tool, card>>

Render ==
    /\ card = <<>>
    /\ card' = <<renderToolCard(tool)>>
    /\ UNCHANGED <<appVars, str, escaped, tool>>

NextPure == Escape \/ Render

SpecPure == InitPure /\ [][NextPure]_vars

----------------------------------------------------------------------------
(* Vocabulary of the properties *)

IsOk(st) == st \in 200..299

Shows(tools) ==
    /\ ~hidden
    /\ Len(grid) = Min(Len(tools), 5)
    /\ \A i \in 1..Len(grid) : grid[i] = renderToolCard(tools[i])

HiddenAndEmpty == hidden /\ grid = <<>>

Newest == Len(requests)

AllSettled == jobs = <<>> /\ \A r \in 1..Len(requests) : ~InFlight(r)

----------------------------------------------------------------------------
(* C1: for requests A and B where B was issued while A was still in        *)
(* flight, A's response is never rendered once B has been issued, and once *)
(* both have settled the panel and grid reflect B only: B's cards if B     *)
(* succeeded (a 2xx response) with tools, hidden and empty if B failed or  *)
(* returned no tools.                                                      *)
C1_NewerRequestWins ==
    /\ (lastHandler.req # 0 /\ grid # <<>>) => lastHandler.req = lastHandler.issued
    /\ (lastFire = "superseded" /\ AllSettled) =>
          /\ lastHandler.req = Newest
          /\ IF lastHandler.got = "list" /\ IsOk(lastHandler.status)
                /\ Len(lastHandler.tools) >= 1
             THEN Shows(lastHandler.tools)
             ELSE HiddenAndEmpty

(* C2: in every reachable state at most one request is in flight and not   *)
(* cancelled: a firing that issues a request has aborted the request       *)
(* issued before it, so only the newest request can be in flight.          *)
C2_AtMostOneInFlight ==
    /\ Cardinality({r \in 1..Len(requests) : InFlight(r)}) <= 1
    /\ \A r \in 1..Len(requests) : InFlight(r) => r = Newest

C2_Witness ==
    /\ Len(requests) >= 2
    /\ InFlight(Newest)
    /\ requests[Newest - 1].outcome = "aborted"

(* C3: a debounce firing that sees a trimmed value of fewer than 3         *)
(* characters issues no request (and cancels none), and leaves the panel   *)
(* hidden and the grid empty when it returns.                              *)
C3_ShortInputNoRequest ==
    [][(nFires' = nFires + 1 /\ Len(Trim(value)) < 3) =>
          /\ requests' = requests
          /\ jobs' = jobs
          /\ hidden'
          /\ grid' = <<>>]_vars

C3_Witness ==
    /\ lastFire = "short"
    /\ lastHandler.got = "short"
    /\ lastHandler.wasShown
    /\ Len(Trim(value)) = 2
    /\ Len(value) >= 3
    /\ HiddenAndEmpty

(* C4: while the most recent debounce firing is one that saw a trimmed     *)
(* value shorter than 3 characters, the panel stays hidden and the grid    *)
(* stays empty, also when the response of an earlier request arrives.      *)
C4_ShortInputStaysHidden == lastFire = "short" => HiddenAndEmpty

(* C5: in a burst of input events, each less than 450 ms after the one     *)
(* before, at most one timer is armed at any time and the timer fires at   *)
(* most once, only after 450 quiet ms; once it has fired no timer is left, *)
(* and exactly one request was issued, carrying the trimmed final value,   *)
(* if that value has at least 3 characters (none otherwise).               *)
C5_DebounceOneRequest ==
    /\ Cardinality(Armed) <= 1
    /\ burst.fires <= 1
    /\ (burst.len >= 1 /\ Armed = {}) => burst.fires = 1
    /\ burst.fires = 1 =>
          /\ Armed = {}
          /\ quiet >= 450
          /\ IF Len(Trim(value)) >= 3
             THEN burst.reqs = 1 /\ requests[Newest].task = Trim(value)
             ELSE burst.reqs = 0

C5_Witness ==
    /\ burst.len >= 2
    /\ burst.fires = 1
    /\ burst.reqs = 1
    /\ requests[Newest].task = <<"a", " ", "b", "c">>

(* C6: a request that ends in a network error, in a body that is no JSON,  *)
(* or in cancellation by a newer request leaves the panel hidden and the   *)
(* grid empty when its completion handler has finished, the same for all   *)
(* three.                                                                  *)
C6_FailureHidesPanel ==
    lastHandler.got \in {"neterror", "parseerror", "aborted"} => HiddenAndEmpty

C6_Witness ==
    /\ lastHandler.got = "aborted"
    /\ lastHandler.wasShown
    /\ HiddenAndEmpty

(* C7: a response with a non-2xx status is treated as a failure whatever   *)
(* its body holds: once it is handled the panel is hidden and the grid is  *)
(* empty.                                                                  *)
C7_Non2xxIsFailure ==
    (lastHandler.req # 0 /\ lastHandler.status # 0 /\ ~IsOk(lastHandler.status))
        => HiddenAndEmpty

(* C8: a successful response carrying n >= 1 tools shows the panel with    *)
(* exactly min(n, 5) cards: the cards of its first min(n, 5) tools, in     *)
(* response order.                                                         *)
C8_FirstFiveCards ==
    (lastHandler.got = "list" /\ IsOk(lastHandler.status) /\ Len(lastHandler.tools) >= 1)
        => Shows(lastHandler.tools)

C8_Witness ==
    /\ lastHandler.got = "list"
    /\ IsOk(lastHandler.status)
    /\ Len(lastHandler.tools) > 5
    /\ lastHandler.tools[1] # ToolAt(1)
    /\ Len(grid) = 5
    /\ ~hidden

(* C9: a successful response whose `tools` list is empty, or that has no   *)
(* `tools` field, leaves the panel hidden and the grid empty, also when    *)
(* the panel was showing cards before it arrived.                          *)
C9_NoToolsHidesPanel ==
    (IsOk(lastHandler.status)
       /\ \/ lastHandler.got = "notools"
          \/ lastHandler.got = "list" /\ lastHandler.tools = <<>>)
        => HiddenAndEmpty

C9_Witness ==
    /\ lastHandler.got = "list"
    /\ lastHandler.tools = <<>>
    /\ IsOk(lastHandler.status)
    /\ lastHandler.wasShown
    /\ HiddenAndEmpty

----------------------------------------------------------------------------
(* What escaping is to achieve, stated character by character *)

EntityOf(c) ==
    CASE c = "&"  -> AmpEntity
      [] c = "<"  -> LtEntity
      [] c = ">"  -> GtEntity
      [] c = "\"" -> QuotEntity
      [] c = "'"  -> AposEntity
      [] OTHER    -> <<c>>

EscapedOnce(s) == Concat([i \in 1..Len(s) |-> EntityOf(s[i])])

Entities == {AmpEntity, LtEntity, GtEntity, QuotEntity, AposEntity}

WellEscaped(out) ==
    \A i \in 1..Len(out) :
        /\ out[i] \notin {"<", ">", "\"", "'"}
        /\ out[i] = "&" =>
              \E e \in Entities :
                  /\ i + Len(e) - 1 <= Len(out)
                  /\ SubSeq(out, i, i + Len(e) - 1) = e

PlainFields == {"name", "description", "category", "pricing_type", "icon"}

(* C10: escapeHTML returns a string with no raw <, >, " or ', in which     *)
(* every & begins one of the five entities, and in which every character   *)
(* of the input is escaped exactly once; every text field of a rendered    *)
(* card (name, description, category, pricing_type, icon, each shown use   *)
(* case) is the escaped form of the tool's text.                           *)
C10_EscapeHTML ==
    /\ escaped # <<>> =>
          /\ WellEscaped(escaped[1])
          /\ escaped[1] = EscapedOnce(JsString(str))
    /\ card # <<>> =>
          /\ \A f \in PlainFields : WellEscaped(card[1][f])
          /\ \A i \in 1..Len(card[1].pills) : WellEscaped(card[1].pills[i])
          /\ \A f \in PlainFields :
                (tool[f].t = "string" /\ tool[f].s # <<>>)
                    => card[1][f] = EscapedOnce(tool[f].s)
          /\ tool.use_cases.t = "array" =>
                /\ Len(card[1].pills) = Min(Len(tool.use_cases.a), 3)
                /\ \A i \in 1..Len(card[1].pills) :
                      card[1].pills[i] = EscapedOnce(JsString(tool.use_cases.a[i]))

C10_Witness ==
    /\ str = JsStr(<<"&", "<", ";">>)
    /\ escaped = << <<"&","a","m","p",";","&","l","t",";",";">> >>
    /\ tool.name = str
    /\ card # <<>>
    /\ card[1].name = escaped[1]

----------------------------------------------------------------------------
Absent(v) == v.t \in {"undefined", "null"}

(* C11: a text field of the tool that is absent (undefined or null) is     *)
(* rendered as the empty string: name, icon, pricing_type, description and *)
(* category insert no text, and absent use_cases insert no pill.           *)
C11_AbsentFieldsRenderEmpty ==
    card # <<>> =>
        /\ \A f \in PlainFields : Absent(tool[f]) => card[1][f] = <<>>
        /\ Absent(tool.use_cases) => card[1].pills = <<>>

(* C12: if any of the four host elements is absent at initialisation, no   *)
(* listener is registered: whatever input events follow, no timer is       *)
(* armed, no request is issued and the panel and grid are left as found.   *)
C12_NoOpWithoutHosts ==
    [][hosts # AllHosts =>
          /\ timers' = <<>> /\ debounce' = 0
          /\ requests' = <<>> /\ jobs' = <<>> /\ lastController' = 0
          /\ hidden' = hidden /\ grid' = grid
          /\ nFires' = 0]_vars

C12_Witness ==
    /\ hosts = {"form", "input", "recs"}
    /\ nInputs >= 2
    /\ Len(Trim(value)) >= 3
    /\ quiet >= 450
    /\ timers = <<>>
    /\ requests = <<>>

(* C13: handlers run in the order their requests were issued: when B       *)
(* supersedes in-flight A, A's cancellation handler hides and clears       *)
(* before anything of B's response is received, so once a request's result *)
(* has been handled no earlier request has a handler left to run.          *)
C13_HandlersInIssueOrder ==
    \A a \in 1..Len(requests) : \A b \in 1..Len(requests) :
        (a < b /\ requests[b].phase # "fetching") =>
            /\ requests[a].outcome = "handled"
            /\ \A i \in 1..Len(jobs) : jobs[i].req # a

C13_Witness ==
    /\ lastFire = "superseded"
    /\ lastHandler.req = Newest
    /\ lastHandler.got = "list"
    /\ ~hidden
    /\ grid # <<>>
    /\ AllSettled

\* No timer is armed, no request is in flight and no continuation is queued:
\* nothing is left to happen until the next input event
Quiescent == Armed = {} /\ AllSettled

(* C14: when input has stopped after a firing that saw at least 3          *)
(* characters and every request has settled, the UI rests in the state     *)
(* determined by the request carrying the final value: panel shown with    *)
(* the cards of its first min(n, 5) tools if it succeeded (a 2xx response) *)
(* with n >= 1 tools, panel hidden and grid empty otherwise.               *)
C14_RestsOnFinalRequest ==
    (Quiescent /\ lastFire \in {"issued", "superseded"}) =>
        /\ requests[Newest].task = Trim(value)
        /\ lastHandler.req = Newest
        /\ IF IsOk(lastHandler.status) /\ lastHandler.got = "list"
              /\ lastHandler.tools # <<>>
           THEN Shows(lastHandler.tools)
           ELSE HiddenAndEmpty

(* C15: once the component has made its first UI update, the panel and     *)
(* grid are in one of two states: panel hidden and grid empty, or panel    *)
(* shown and grid holding between 1 and 5 cards.                           *)
C15_TwoPanelStates ==
    lastHandler.got # "none" =>
        \/ hidden /\ grid = <<>>
        \/ ~hidden /\ Len(grid) \in 1..5

C15_Witness ==
    /\ lastHandler.got = "short"
    /\ lastHandler.wasShown
    /\ lastHandler.issued >= 2
    /\ hidden
    /\ grid = <<>>

(* C16: an input event changes only the debounce timer (it cancels the     *)
(* pending timer, if any, and arms a new one) and leaves the panel, the    *)
(* grid and the request in flight as they are; a request is cancelled only *)
(* by a debounce firing whose trimmed value has at least 3 characters.     *)
C16_InputOnlyRearmsTimer ==
    [][/\ nInputs' = nInputs + 1 =>
             /\ hidden' = hidden /\ grid' = grid
             /\ requests' = requests /\ jobs' = jobs
             /\ lastController' = lastController
             /\ Registered => (DOMAIN timers' = {debounce'} /\ timers'[debounce'] = 450)
       /\ (\E r \in 1..Len(requests) :
              requests'[r].outcome = "aborted" /\ requests[r].outcome # "aborted")
             => (nFires' = nFires + 1 /\ Len(Trim(value)) >= 3)]_vars

C16_Witness ==
    /\ nInputs >= 2
    /\ debounce = nInputs
    /\ debounce \in Armed
    /\ timers[debounce] = 450
    /\ ~hidden
    /\ grid # <<>>
    /\ InFlight(Newest)

(* C17: no retry: a request is issued only by a debounce firing whose      *)
(* trimmed value has at least 3 characters, one request per firing, never  *)
(* by a handler of a failed or cancelled request; so the requests issued   *)
(* never outnumber the firings, nor the firings the input events.          *)
C17_NoRetry ==
    [][/\ Len(requests') # Len(requests) =>
             /\ Len(requests') = Len(requests) + 1
             /\ nFires' = nFires + 1
             /\ Len(Trim(value)) >= 3
       /\ nFires' \in {nFires, nFires + 1}
       /\ Len(requests') <= nFires'
       /\ nFires' <= nInputs']_vars

C17_Witness ==
    /\ Len(requests) = 2
    /\ nFires = 3
    /\ nInputs = 3
    /\ lastHandler.got \in {"neterror", "parseerror", "aborted"}
    /\ Quiescent

====
